---- MODULE Spec2Model ----
(***************************************************************************)
(* Invoice extraction pipeline: the invoice router (POST /upload,          *)
(* POST /:id/extract) and the asynchronous runExtraction pipeline over the *)
(* vendors, invoices and line_items tables.                                *)
(*                                                                         *)
(* Units.  Money is counted in cents (the numeric(14,2) columns hold two   *)
(* decimals), confidences in hundredths (0.15 is 15).  A vendor name is a  *)
(* tuple of one-character strings so that trim() and toLowerCase() are     *)
(* computed; the empty tuple is the empty string.  Row ids (uuid) are the   *)
(* row's position in its table; 0 is a null vendor_id.                     *)
(***************************************************************************)
EXTENDS Integers, Sequences, FiniteSets, TLC

\* ------------------------------------------------------------------ bounds
\* number of invoices that can be uploaded
MaxInvoices == 2
\* number of runExtraction runs started when runs may overlap
MaxRuns == 2
\* number of runExtraction runs started in the race scenarios, where a first
\* run can finish before two later ones overlap
MaxRaceRuns == 3
\* number of runExtraction runs started when runs are strictly sequential
MaxSeqRuns == 3
\* largest page count of an uploaded PDF
MaxPages == 7

\* ---------------------------------------------------------------- constants
\* const CONFIDENCE_FLOOR = 0.15, in hundredths
CONFIDENCE_FLOOR == 15
\* const MAX_DIMENSION = 2048
MAX_DIMENSION == 2048
\* const MAX_PDF_PAGES = 5
MAX_PDF_PAGES == 5

VARIABLES
    vendors,    \* the vendors table: sequence of rows, id = position
    invoices,   \* the invoices table: sequence of rows, id = position
    lineItems,  \* the line_items table: sequence of rows in insertion order
    runs,       \* the runExtraction invocations: sequence, run id = position
    log,        \* history: the committed persistence transactions, in commit order
    file,       \* the uploaded file handed to processFile
    processed   \* what processFile returned or threw for it

vars == <<vendors, invoices, lineItems, runs, log, file, processed>>

\* ------------------------------------------------------------ string helpers
RECURSIVE TrimStart(_)
TrimStart(s) ==
    IF s # <<>> /\ Head(s) = " " THEN TrimStart(Tail(s)) ELSE s

RECURSIVE TrimEnd(_)
TrimEnd(s) ==
    IF s # <<>> /\ s[Len(s)] = " " THEN TrimEnd(SubSeq(s, 1, Len(s) - 1)) ELSE s

\* String.prototype.trim
Trim(s) == TrimEnd(TrimStart(s))

LowerChar(c) ==
    CASE c = "A" -> "a"
      [] c = "B" -> "b"
      [] c = "C" -> "c"
      [] c = "D" -> "d"
      [] c = "E" -> "e"
      [] c = "F" -> "f"
      [] OTHER -> c

\* String.prototype.toLowerCase
ToLowerCase(s) == [k \in 1..Len(s) |-> LowerChar(s[k])]

\* aiVendorName.trim().toLowerCase()
NormalizedName(name) == ToLowerCase(Trim(name))

\* Array.prototype.includes
Includes(arr, x) == \E k \in 1..Len(arr) : arr[k] = x

\* ------------------------------------------------------------- model output
NoLineNumber == <<>>

\* the ExtractionResult values the model may return (JSON.parse of the reply)
Results ==
    { [vendorName |-> <<"A", "b">>, totalAmount |-> 100, confidence |-> 92,
       lineItems |-> << [lineNumber |-> NoLineNumber, description |-> "x"],
                        [lineNumber |-> NoLineNumber, description |-> "y"] >>],
      [vendorName |-> <<" ", "a", "b">>, totalAmount |-> 101, confidence |-> 15,
       lineItems |-> << [lineNumber |-> <<2>>, description |-> "z"] >>],
      [vendorName |-> <<"C", "d">>, totalAmount |-> 101, confidence |-> 20,
       lineItems |-> << >>],
      [vendorName |-> <<"A", "b">>, totalAmount |-> 100, confidence |-> 14,
       lineItems |-> << [lineNumber |-> NoLineNumber, description |-> "x"] >>],
      [vendorName |-> <<>>, totalAmount |-> 100, confidence |-> 92,
       lineItems |-> << >>] }

NoResult ==
    [vendorName |-> <<>>, totalAmount |-> 0, confidence |-> 0, lineItems |-> <<>>]

\* errors thrown by processFile
ProcessFileErrors ==
    { "PDF rendering requires Sharp built with libvips poppler support." }

\* errors thrown by extractInvoiceData
RefusalError == "Claude refused to process this image for safety reasons."
TruncationError ==
    "Response was truncated due to token limit. The invoice may be too complex."
NoTextError == "No text content in Claude response."
\* the SyntaxError of JSON.parse
JsonSyntaxError == "Unexpected end of JSON input"

ExtractErrors == { RefusalError, TruncationError, NoTextError }

\* the text block of a response: whether it is well-formed JSON, and the value
\* JSON.parse gives for it when it is
JsonText(value) == [wellFormed |-> TRUE, value |-> value]
BrokenText == [wellFormed |-> FALSE, value |-> NoResult]

\* response.content.find(block => block.type === "text"): <<>> when there is none
NoTextBlock == <<>>

\* responses of messages.create when the service keeps to the output format:
\* a refusal, a truncated reply, a reply without text, or a conforming document
Responses ==
    { [stop_reason |-> "refusal", text |-> NoTextBlock],
      [stop_reason |-> "max_tokens", text |-> <<BrokenText>>],
      [stop_reason |-> "end_turn", text |-> NoTextBlock] }
    \cup { [stop_reason |-> "end_turn", text |-> <<JsonText(res)>>] : res \in Results }

\* documents the service could send that are outside the ExtractionResult
\* schema: a confidence above 1, and a property the schema does not know
OutOfRangeResult ==
    [vendorName |-> <<"A", "b">>, totalAmount |-> 100, confidence |-> 150,
     lineItems |-> <<>>]
UnknownFieldResult ==
    [vendorName |-> <<"A", "b">>, totalAmount |-> 100, confidence |-> 92,
     lineItems |-> <<>>, remark |-> "paid"]

\* any response: those above, a refusal or a truncated reply that carries a
\* complete document, text that is not JSON, and the documents outside the schema
AnyResponses ==
    Responses
    \cup { [stop_reason |-> "refusal", text |-> <<JsonText(OutOfRangeResult)>>],
           [stop_reason |-> "max_tokens", text |-> <<JsonText(UnknownFieldResult)>>],
           [stop_reason |-> "end_turn", text |-> <<BrokenText>>],
           [stop_reason |-> "end_turn", text |-> <<JsonText(OutOfRangeResult)>>],
           [stop_reason |-> "end_turn", text |-> <<JsonText(UnknownFieldResult)>>] }

Returns(data) == [returned |-> TRUE, data |-> data, error |-> ""]
Throws(msg) == [returned |-> FALSE, data |-> NoResult, error |-> msg]

\* extractInvoiceData after messages.create: the stop_reason checks, the text
\* block, then JSON.parse(textBlock.text) as ExtractionResult (a cast, the
\* parsed value is not validated)
ExtractOutcome(response) ==
    IF response.stop_reason = "refusal" THEN Throws(RefusalError)
    ELSE IF response.stop_reason = "max_tokens" THEN Throws(TruncationError)
    ELSE IF response.text = NoTextBlock THEN Throws(NoTextError)
    ELSE IF ~response.text[1].wellFormed THEN Throws(JsonSyntaxError)
    ELSE Returns(response.text[1].value)

DbError == "database error"

\* ------------------------------------------------------------------- tables
NullRaw == [kind |-> "null"]
DataRaw(res) == [kind |-> "data", data |-> res]
ErrorRaw(msg) == [kind |-> "error", error |-> msg]

NullName == <<"<null>">>

\* db.insert(invoices).values({..., status: "processing"})
NewInvoice ==
    [status |-> "processing", vendorId |-> 0, vendorName |-> NullName,
     totalAmount |-> -1, overallConfidence |-> -1, rawExtraction |-> NullRaw,
     reviewNotes |-> ""]

NoVendorRead ==
    [found |-> FALSE, id |-> 0,
     row |-> [aliases |-> <<>>, totalInvoices |-> 0, totalSpend |-> 0]]

IdleRun(inv) ==
    [pc |-> "processFile", invoiceId |-> inv, result |-> NoResult,
     v |-> NoVendorRead, err |-> ""]

\* a finished run keeps no locals
EndRun(run, how) == [IdleRun(0) EXCEPT !.pc = how]

\* no file is under normalization
NoFile == [isPdf |-> FALSE, decodes |-> FALSE, pages |-> <<>>,
           width |-> <<>>, height |-> <<>>]
NotProcessed == [state |-> "none"]

Init ==
    /\ vendors = <<>>
    /\ invoices = <<>>
    /\ lineItems = <<>>
    /\ runs = <<>>
    /\ log = <<>>
    /\ file = NoFile
    /\ processed = NotProcessed

InFlight(r) == runs[r].pc \notin {"done", "rejected"}
NoRunInFlight == \A r \in 1..Len(runs) : ~InFlight(r)

\* ----------------------------------------------------------- route handlers
\* POST /upload: insert the invoice with status processing, start runExtraction
Upload ==
    /\ Len(invoices) < MaxInvoices
    /\ invoices' = Append(invoices, NewInvoice)
    /\ runs' = Append(runs, IdleRun(Len(invoices) + 1))
    /\ UNCHANGED <<file, processed, vendors, lineItems, log>>

\* POST /:id/extract: mark the invoice processing, start runExtraction
Extract(id) ==
    /\ id \in 1..Len(invoices)
    /\ invoices' = [invoices EXCEPT ![id].status = "processing"]
    /\ runs' = Append(runs, IdleRun(id))
    /\ UNCHANGED <<file, processed, vendors, lineItems, log>>

\* -------------------------------------------------------------- runExtraction
\* mutant of BelowFloor: the gate also rejects a confidence equal to the floor
BelowFloorInclusive(confidence) == confidence <= CONFIDENCE_FLOOR

\* if (result.data.confidence < CONFIDENCE_FLOOR)
BelowFloor(confidence) == confidence < CONFIDENCE_FLOOR

\* mutant of LowConfidenceRow: the update forgets the note and the payload
LowConfidenceRowBare(inv, res) ==
    [inv EXCEPT !.status = "failed", !.overallConfidence = res.confidence]

\* the low-confidence update of the invoice row
LowConfidenceRow(inv, res) ==
    [inv EXCEPT !.status = "failed",
                !.overallConfidence = res.confidence,
                !.rawExtraction = DataRaw(res),
                !.reviewNotes = "Document type unrecognized or illegible"]

VendorMatchesExact(row, aiVendorName) == row.name = aiVendorName

VendorMatchesNoAlias(row, aiVendorName) ==
    \/ row.name = aiVendorName
    \/ row.normalizedName = NormalizedName(aiVendorName)

\* where or(eq(name), eq(normalizedName), aliases @> [aiVendorName])
VendorMatches(row, aiVendorName) ==
    \/ row.name = aiVendorName
    \/ row.normalizedName = NormalizedName(aiVendorName)
    \/ Includes(row.aliases, aiVendorName)

\* mutant of UpdatedAliases: the name is appended without the includes test
UpdatedAliasesAlways(currentAliases, aiVendorName) ==
    Append(currentAliases, aiVendorName)

\* currentAliases.includes(name) ? currentAliases : [...currentAliases, name]
UpdatedAliases(currentAliases, aiVendorName) ==
    IF Includes(currentAliases, aiVendorName)
    THEN currentAliases
    ELSE Append(currentAliases, aiVendorName)

\* a quotient stored in a numeric(14,2) column: rounded to the cent, half up
RoundDiv(sum, n) == (2 * sum + n) \div (2 * n)

\* mutant of UpdatedVendor: the average divides by the count before the increment
UpdatedVendorOldCount(cur, v, res) ==
    [cur EXCEPT !.aliases = UpdatedAliases(v.aliases, res.vendorName),
                !.totalInvoices = v.totalInvoices + 1,
                !.totalSpend = v.totalSpend + res.totalAmount,
                !.averageInvoiceAmount =
                    RoundDiv(v.totalSpend + res.totalAmount, v.totalInvoices)]

\* tx.update(vendors).set({...}).where(eq(vendors.id, v.id)): the columns set
\* are computed from the row v read by the select, the others keep their value
UpdatedVendor(cur, v, res) ==
    [cur EXCEPT !.aliases = UpdatedAliases(v.aliases, res.vendorName),
                !.totalInvoices = v.totalInvoices + 1,
                !.totalSpend = v.totalSpend + res.totalAmount,
                !.averageInvoiceAmount =
                    RoundDiv(v.totalSpend + res.totalAmount, v.totalInvoices + 1)]

InsertedVendorNormalizedAlias(res) ==
    [name |-> res.vendorName,
     normalizedName |-> NormalizedName(res.vendorName),
     aliases |-> <<NormalizedName(res.vendorName)>>,
     totalInvoices |-> 1,
     totalSpend |-> res.totalAmount,
     averageInvoiceAmount |-> res.totalAmount]

\* tx.insert(vendors).values({...})
InsertedVendor(res) ==
    [name |-> res.vendorName,
     normalizedName |-> NormalizedName(res.vendorName),
     aliases |-> <<res.vendorName>>,
     totalInvoices |-> 1,
     totalSpend |-> res.totalAmount,
     averageInvoiceAmount |-> res.totalAmount]

\* tx.update(invoices).set({status: "review", ...}); the update sets no reviewNotes
ReviewRow(inv, vendorId, res) ==
    [inv EXCEPT !.status = "review",
                !.vendorId = vendorId,
                !.vendorName = res.vendorName,
                !.totalAmount = res.totalAmount,
                !.overallConfidence = res.confidence,
                !.rawExtraction = DataRaw(res)]

\* lineNumber: item.lineNumber ?? idx + 1
LineNumberOf(item, idx) ==
    IF item.lineNumber = NoLineNumber THEN idx ELSE item.lineNumber[1]

\* result.data.lineItems.map((item, idx) => ({invoiceId, lineNumber, ...}))
InsertedLineItems(invoiceId, res) ==
    [k \in 1..Len(res.lineItems) |->
        [invoiceId |-> invoiceId,
         lineNumber |-> LineNumberOf(res.lineItems[k], k),
         description |-> res.lineItems[k].description]]

\* catch: set({status: "failed", rawExtraction: {error, timestamp}})
FailedRow(inv, msg) ==
    [inv EXCEPT !.status = "failed", !.rawExtraction = ErrorRaw(msg)]

\* mutant of Throw: a failed stage starts the run over instead of failing it
ThrowRetry(r, msg) ==
    runs' = [runs EXCEPT ![r].pc = "processFile", ![r].err = msg,
                         ![r].result = NoResult, ![r].v = NoVendorRead]

\* a statement of the try block throws: control passes to catch (err)
Throw(r, msg) ==
    runs' = [runs EXCEPT ![r].pc = "catch", ![r].err = msg,
                         ![r].result = NoResult, ![r].v = NoVendorRead]

\* 1. await processFile(filePath)
ProcessFile(r) ==
    /\ runs[r].pc = "processFile"
    /\ runs' = [runs EXCEPT ![r].pc = "extract"]
    /\ UNCHANGED <<file, processed, vendors, invoices, lineItems, log>>

ProcessFileThrows(r) ==
    /\ runs[r].pc = "processFile"
    /\ \E msg \in ProcessFileErrors : Throw(r, msg)
    /\ UNCHANGED <<file, processed, vendors, invoices, lineItems, log>>

\* 2. await extractInvoiceData(processed), the service answering with one of
\* responses
ExtractInvoiceDataOn(r, responses) ==
    /\ runs[r].pc = "extract"
    /\ \E response \in responses :
          /\ ExtractOutcome(response).returned
          /\ runs' = [runs EXCEPT ![r].pc = "gate",
                                  ![r].result = ExtractOutcome(response).data]
    /\ UNCHANGED <<file, processed, vendors, invoices, lineItems, log>>

ExtractInvoiceDataThrowsOn(r, responses) ==
    /\ runs[r].pc = "extract"
    /\ \E response \in responses :
          /\ ~ExtractOutcome(response).returned
          /\ Throw(r, ExtractOutcome(response).error)
    /\ UNCHANGED <<file, processed, vendors, invoices, lineItems, log>>

ExtractInvoiceData(r) == ExtractInvoiceDataOn(r, Responses)

ExtractInvoiceDataThrows(r) == ExtractInvoiceDataThrowsOn(r, Responses)

\* 3. the confidence gate: the update of the low-confidence path, then return
LowConfidenceUpdate(r) ==
    /\ runs[r].pc = "gate"
    /\ BelowFloor(runs[r].result.confidence)
    /\ invoices' = [invoices EXCEPT ![runs[r].invoiceId] =
                        LowConfidenceRow(@, runs[r].result)]
    /\ runs' = [runs EXCEPT ![r] = EndRun(@, "done")]
    /\ UNCHANGED <<file, processed, vendors, lineItems, log>>

LowConfidenceUpdateThrows(r) ==
    /\ runs[r].pc = "gate"
    /\ BelowFloor(runs[r].result.confidence)
    /\ Throw(r, DbError)
    /\ UNCHANGED <<file, processed, vendors, invoices, lineItems, log>>

\* 4. db.transaction: the vendor select .limit(1); it reads committed rows, and
\* with several matching rows the row returned is any of them
TxSelectVendor(r) ==
    /\ runs[r].pc = "gate"
    /\ ~BelowFloor(runs[r].result.confidence)
    /\ LET name == runs[r].result.vendorName
           hits == {id \in 1..Len(vendors) : VendorMatches(vendors[id], name)}
       IN IF name = <<>> \/ hits = {}
          THEN runs' = [runs EXCEPT ![r].pc = "txWrite", ![r].v = NoVendorRead]
          ELSE \E id \in hits :
                  runs' = [runs EXCEPT
                      ![r].pc = "txWrite",
                      ![r].v = [found |-> TRUE, id |-> id,
                                row |-> [aliases |-> vendors[id].aliases,
                                         totalInvoices |-> vendors[id].totalInvoices,
                                         totalSpend |-> vendors[id].totalSpend]]]
    /\ UNCHANGED <<file, processed, vendors, invoices, lineItems, log>>

\* the vendors table after the upsert of the transaction
VendorsAfterUpsert(run) ==
    IF run.result.vendorName = <<>> THEN vendors
    ELSE IF run.v.found
         THEN [vendors EXCEPT ![run.v.id] = UpdatedVendor(@, run.v.row, run.result)]
         ELSE Append(vendors, InsertedVendor(run.result))

\* let vendorId after the upsert
VendorIdAfterUpsert(run) ==
    IF run.result.vendorName = <<>> THEN 0
    ELSE IF run.v.found THEN run.v.id ELSE Len(vendors) + 1

\* the line_items table after the insert of the transaction
LineItemsAfterInsert(run) ==
    lineItems \o InsertedLineItems(run.invoiceId, run.result)

\* the writes of the transaction (vendor upsert, invoice update, line-item
\* insert) become visible together when it commits
TxCommit(r) ==
    /\ runs[r].pc = "txWrite"
    /\ vendors' = VendorsAfterUpsert(runs[r])
    /\ invoices' = [invoices EXCEPT ![runs[r].invoiceId] =
                        ReviewRow(@, VendorIdAfterUpsert(runs[r]), runs[r].result)]
    /\ lineItems' = LineItemsAfterInsert(runs[r])
    /\ log' = Append(log, [invoiceId |-> runs[r].invoiceId,
                           vendorId |-> VendorIdAfterUpsert(runs[r]),
                           result |-> runs[r].result])
    /\ runs' = [runs EXCEPT ![r] = EndRun(@, "done")]
    /\ UNCHANGED <<file, processed>>

VendorsAfterRollbackKept(run) ==
    IF run.result.vendorName = <<>> THEN vendors
    ELSE Append(vendors, InsertedVendor(run.result))

\* the vendors table after the transaction rolled back: the upsert went
\* through tx, so it is undone with the rest
VendorsAfterRollback(run) == vendors

\* a statement of the transaction throws: rollback, nothing is written
TxRollback(r) ==
    /\ \/ runs[r].pc = "txWrite"
       \/ runs[r].pc = "gate" /\ ~BelowFloor(runs[r].result.confidence)
    /\ Throw(r, DbError)
    /\ vendors' = VendorsAfterRollback(runs[r])
    /\ UNCHANGED <<file, processed, invoices, lineItems, log>>

\* catch (err): mark the invoice failed and store the error
CatchUpdate(r) ==
    /\ runs[r].pc = "catch"
    /\ invoices' = [invoices EXCEPT ![runs[r].invoiceId] = FailedRow(@, runs[r].err)]
    /\ runs' = [runs EXCEPT ![r] = EndRun(@, "done")]
    /\ UNCHANGED <<file, processed, vendors, lineItems, log>>

\* the update of the catch block throws: runExtraction rejects
CatchUpdateThrows(r) ==
    /\ runs[r].pc = "catch"
    /\ runs' = [runs EXCEPT ![r] = EndRun(@, "rejected")]
    /\ UNCHANGED <<file, processed, vendors, invoices, lineItems, log>>

\* one step of one of the runs in flight
Pipeline ==
    \/ \E r \in 1..Len(runs) : ProcessFile(r)
    \/ \E r \in 1..Len(runs) : ProcessFileThrows(r)
    \/ \E r \in 1..Len(runs) : ExtractInvoiceData(r)
    \/ \E r \in 1..Len(runs) : ExtractInvoiceDataThrows(r)
    \/ \E r \in 1..Len(runs) : LowConfidenceUpdate(r)
    \/ \E r \in 1..Len(runs) : LowConfidenceUpdateThrows(r)
    \/ \E r \in 1..Len(runs) : TxSelectVendor(r)
    \/ \E r \in 1..Len(runs) : TxCommit(r)
    \/ \E r \in 1..Len(runs) : TxRollback(r)
    \/ \E r \in 1..Len(runs) : CatchUpdate(r)
    \/ \E r \in 1..Len(runs) : CatchUpdateThrows(r)

\* ------------------------------------------------------------ specifications
\* requests are served concurrently: runs of runExtraction overlap
Next ==
    \/ Len(runs) < MaxRuns /\ Upload
    \/ \E id \in 1..Len(invoices) : Len(runs) < MaxRuns /\ Extract(id)
    \/ Pipeline

Spec == Init /\ [][Next]_vars

\* the same system with one more run, for the races on an existing vendor row
RaceNext ==
    \/ Len(runs) < MaxRaceRuns /\ Upload
    \/ \E id \in 1..Len(invoices) : Len(runs) < MaxRaceRuns /\ Extract(id)
    \/ Pipeline

RaceSpec == Init /\ [][RaceNext]_vars

\* a request is sent only when no run is in flight: runs are sequential
SeqNext ==
    \/ Len(runs) < MaxSeqRuns /\ NoRunInFlight /\ Upload
    \/ \E id \in 1..Len(invoices) :
          Len(runs) < MaxSeqRuns /\ NoRunInFlight /\ Extract(id)
    \/ Pipeline

SeqSpec == Init /\ [][SeqNext]_vars

\* the service is not trusted to keep to the output format: runs overlap as in
\* Spec and every response is possible
ReplyPipeline ==
    \/ \E r \in 1..Len(runs) : ProcessFile(r)
    \/ \E r \in 1..Len(runs) : ProcessFileThrows(r)
    \/ \E r \in 1..Len(runs) : ExtractInvoiceDataOn(r, AnyResponses)
    \/ \E r \in 1..Len(runs) : ExtractInvoiceDataThrowsOn(r, AnyResponses)
    \/ \E r \in 1..Len(runs) : LowConfidenceUpdate(r)
    \/ \E r \in 1..Len(runs) : LowConfidenceUpdateThrows(r)
    \/ \E r \in 1..Len(runs) : TxSelectVendor(r)
    \/ \E r \in 1..Len(runs) : TxCommit(r)
    \/ \E r \in 1..Len(runs) : TxRollback(r)
    \/ \E r \in 1..Len(runs) : CatchUpdate(r)
    \/ \E r \in 1..Len(runs) : CatchUpdateThrows(r)

ReplyNext ==
    \/ Len(runs) < MaxRuns /\ Upload
    \/ \E id \in 1..Len(invoices) : Len(runs) < MaxRuns /\ Extract(id)
    \/ ReplyPipeline

ReplySpec == Init /\ [][ReplyNext]_vars

\* ------------------------------------------------------------------ review
\* the name a user gives to a vendor
PatchNames == { <<"C", "d">> }

RenamedAliasesAlways(currentAliases, oldName) == Append(currentAliases, oldName)

\* PATCH /:id: currentAliases.includes(oldName) ? currentAliases : [..., oldName]
RenamedAliases(currentAliases, oldName) ==
    IF Includes(currentAliases, oldName) THEN currentAliases
    ELSE Append(currentAliases, oldName)

\* PATCH /:id: db.update(vendors).set({name, normalizedName, aliases})
RenamedVendor(vendor, oldName, vendorName) ==
    [vendor EXCEPT !.name = vendorName,
                   !.normalizedName = NormalizedName(vendorName),
                   !.aliases = RenamedAliases(@, oldName)]

\* PATCH /:id: the invoice has a vendor and a non-empty vendor name other than
\* the one sent
Renames(currentInvoice, vendorName) ==
    /\ currentInvoice.vendorId # 0
    /\ currentInvoice.vendorName \notin {NullName, <<>>}
    /\ currentInvoice.vendorName # vendorName

\* the vendors table after the rename block of PATCH /:id
VendorsAfterPatch(id, vendorName) ==
    IF Renames(invoices[id], vendorName)
    THEN [vendors EXCEPT ![invoices[id].vendorId] =
              RenamedVendor(@, invoices[id].vendorName, vendorName)]
    ELSE vendors

\* PATCH /:id with a vendorName in the body
Patch(id, vendorName) ==
    /\ vendors' = VendorsAfterPatch(id, vendorName)
    /\ invoices' = [invoices EXCEPT ![id].vendorName = vendorName]
    /\ UNCHANGED <<file, processed, lineItems, runs, log>>

\* PATCH /:id whose update of the invoice throws after the vendor was renamed:
\* the handler answers 500 and the vendor stays renamed
PatchThrows(id, vendorName) ==
    /\ Renames(invoices[id], vendorName)
    /\ vendors' = VendorsAfterPatch(id, vendorName)
    /\ UNCHANGED <<file, processed, invoices, lineItems, runs, log>>

\* sequential runs, and a user who edits invoices while no run is in flight
ReviewNext ==
    \/ Len(runs) < MaxSeqRuns /\ NoRunInFlight /\ Upload
    \/ \E id \in 1..Len(invoices) :
          Len(runs) < MaxSeqRuns /\ NoRunInFlight /\ Extract(id)
    \/ \E id \in 1..Len(invoices), vendorName \in PatchNames :
          NoRunInFlight /\ Patch(id, vendorName)
    \/ \E id \in 1..Len(invoices), vendorName \in PatchNames :
          NoRunInFlight /\ PatchThrows(id, vendorName)
    \/ Pipeline

ReviewSpec == Init /\ [][ReviewNext]_vars

\* the names a user sends when renaming: the empty string and two names, one
\* of them a name extractions report too
RenameNames == { <<>>, <<"C", "d">>, <<"E", "f">> }

\* the responses of the service while vendors are renamed: a refusal, and
\* documents naming two vendors, one of them below the confidence floor
RenameResponses ==
    { [stop_reason |-> "refusal", text |-> NoTextBlock] }
    \cup { [stop_reason |-> "end_turn", text |-> <<JsonText(res)>>] :
             res \in {x \in Results : x.vendorName \in { <<"A", "b">>, <<"C", "d">> }} }

RenamePipeline ==
    \/ \E r \in 1..Len(runs) : ProcessFile(r)
    \/ \E r \in 1..Len(runs) : ProcessFileThrows(r)
    \/ \E r \in 1..Len(runs) : ExtractInvoiceDataOn(r, RenameResponses)
    \/ \E r \in 1..Len(runs) : ExtractInvoiceDataThrowsOn(r, RenameResponses)
    \/ \E r \in 1..Len(runs) : LowConfidenceUpdate(r)
    \/ \E r \in 1..Len(runs) : LowConfidenceUpdateThrows(r)
    \/ \E r \in 1..Len(runs) : TxSelectVendor(r)
    \/ \E r \in 1..Len(runs) : TxCommit(r)
    \/ \E r \in 1..Len(runs) : TxRollback(r)
    \/ \E r \in 1..Len(runs) : CatchUpdate(r)
    \/ \E r \in 1..Len(runs) : CatchUpdateThrows(r)

\* sequential runs, and a user who renames vendors while no run is in flight
RenameNext ==
    \/ Len(runs) < MaxRuns /\ NoRunInFlight /\ Upload
    \/ \E id \in 1..Len(invoices) :
          Len(runs) < MaxRuns /\ NoRunInFlight /\ Extract(id)
    \/ \E id \in 1..Len(invoices), vendorName \in RenameNames :
          NoRunInFlight /\ Patch(id, vendorName)
    \/ \E id \in 1..Len(invoices), vendorName \in RenameNames :
          NoRunInFlight /\ PatchThrows(id, vendorName)
    \/ RenamePipeline

RenameSpec == Init /\ [][RenameNext]_vars

\* --------------------------------------------------------------- decisions
\* the reviewNotes of the body of POST /:id/reject: absent, or a note
RejectNotes == { <<>>, <<"Duplicate">> }

\* POST /:id/approve: update invoices set status = approved where id
Approve(id) ==
    /\ id \in 1..Len(invoices)
    /\ invoices' = [invoices EXCEPT ![id].status = "approved"]
    /\ UNCHANGED <<file, processed, vendors, lineItems, runs, log>>

\* POST /:id/reject: update invoices set status = rejected, reviewNotes where
\* id; a field that is undefined in set() is left as it is
Reject(id, reviewNotes) ==
    /\ id \in 1..Len(invoices)
    /\ invoices' = [invoices EXCEPT
           ![id].status = "rejected",
           ![id].reviewNotes = IF reviewNotes = <<>> THEN @ ELSE reviewNotes[1]]
    /\ UNCHANGED <<file, processed, vendors, lineItems, runs, log>>

\* sequential runs, and a user who approves or rejects invoices at any time,
\* also while a run is in flight
DecisionNext ==
    \/ Len(runs) < MaxRuns /\ NoRunInFlight /\ Upload
    \/ \E id \in 1..Len(invoices) :
          Len(runs) < MaxRuns /\ NoRunInFlight /\ Extract(id)
    \/ \E id \in 1..Len(invoices) : Approve(id)
    \/ \E id \in 1..Len(invoices), reviewNotes \in RejectNotes :
          Reject(id, reviewNotes)
    \/ Pipeline

DecisionSpec == Init /\ [][DecisionNext]_vars

\* ----------------------------------------------------------------- listing
\* select from line_items where invoiceId = id: the rows of the invoice, in
\* the order of the table
ItemsOf(id) == SelectSeq(lineItems, LAMBDA row : row.invoiceId = id)

\* the ways of arranging the elements of a sequence
Arrangements(items) ==
    { [k \in 1..Len(items) |-> items[p[k]]] :
        p \in { f \in [1..Len(items) -> 1..Len(items)] :
                  \A a, b \in 1..Len(items) : f[a] = f[b] => a = b } }

\* GET /:id: .orderBy(lineItems.lineNumber), the lineItems of the reply; rows
\* with equal line numbers come in an order the database chooses
GetLineItems(id) ==
    { items \in Arrangements(ItemsOf(id)) :
        \A k \in 1..(Len(items) - 1) :
            items[k].lineNumber <= items[k + 1].lineNumber }

\* documents whose line items carry line numbers in order, out of order,
\* not at all, and for the first item only, and one below the confidence floor
ListingResults ==
    { [vendorName |-> <<"A", "b">>, totalAmount |-> 100, confidence |-> 92,
       lineItems |-> << [lineNumber |-> <<1>>, description |-> "x"],
                        [lineNumber |-> <<2>>, description |-> "y"] >>],
      [vendorName |-> <<"A", "b">>, totalAmount |-> 100, confidence |-> 92,
       lineItems |-> << [lineNumber |-> <<2>>, description |-> "x"],
                        [lineNumber |-> <<1>>, description |-> "y"] >>],
      [vendorName |-> <<"A", "b">>, totalAmount |-> 100, confidence |-> 92,
       lineItems |-> << [lineNumber |-> NoLineNumber, description |-> "x"],
                        [lineNumber |-> NoLineNumber, description |-> "y"] >>],
      [vendorName |-> <<"A", "b">>, totalAmount |-> 100, confidence |-> 92,
       lineItems |-> << [lineNumber |-> <<2>>, description |-> "x"],
                        [lineNumber |-> NoLineNumber, description |-> "y"] >>],
      [vendorName |-> <<"A", "b">>, totalAmount |-> 100, confidence |-> 14,
       lineItems |-> << [lineNumber |-> <<1>>, description |-> "x"] >>] }

ListingResponses ==
    { [stop_reason |-> "refusal", text |-> NoTextBlock] }
    \cup { [stop_reason |-> "end_turn", text |-> <<JsonText(res)>>] :
             res \in ListingResults }

ListingPipeline ==
    \/ \E r \in 1..Len(runs) : ProcessFile(r)
    \/ \E r \in 1..Len(runs) : ProcessFileThrows(r)
    \/ \E r \in 1..Len(runs) : ExtractInvoiceDataOn(r, ListingResponses)
    \/ \E r \in 1..Len(runs) : ExtractInvoiceDataThrowsOn(r, ListingResponses)
    \/ \E r \in 1..Len(runs) : LowConfidenceUpdate(r)
    \/ \E r \in 1..Len(runs) : LowConfidenceUpdateThrows(r)
    \/ \E r \in 1..Len(runs) : TxSelectVendor(r)
    \/ \E r \in 1..Len(runs) : TxCommit(r)
    \/ \E r \in 1..Len(runs) : TxRollback(r)
    \/ \E r \in 1..Len(runs) : CatchUpdate(r)
    \/ \E r \in 1..Len(runs) : CatchUpdateThrows(r)

\* sequential runs over documents with numbered line items
ListingNext ==
    \/ Len(runs) < MaxRuns /\ NoRunInFlight /\ Upload
    \/ \E id \in 1..Len(invoices) :
          Len(runs) < MaxRuns /\ NoRunInFlight /\ Extract(id)
    \/ ListingPipeline

ListingSpec == Init /\ [][ListingNext]_vars

\* ---------------------------------------------------------- image normalizer
\* processFile and its helpers (services/imageProcessor.ts).  A file is what
\* sharp reports about it: whether it decodes, metadata.pages, and
\* metadata.width / metadata.height of the render the code asks for; a field
\* sharp leaves undefined is the empty tuple.
Dims == {1, 2, 1000, 2047, 2048, 2049, 3000, 4096, 5000}
OptDims == {<<>>} \cup {<<d>> : d \in Dims}
OptPages == {<<>>} \cup {<<n>> : n \in 1..MaxPages}

Files ==
    [isPdf : {FALSE}, decodes : BOOLEAN, pages : {<<>>},
     width : OptDims, height : OptDims]
    \cup
    [isPdf : {TRUE}, decodes : BOOLEAN, pages : OptPages,
     width : OptDims, height : OptDims]

\* a ?? b
OrElse(opt, default) == IF opt = <<>> THEN default ELSE opt[1]

Min(a, b) == IF a <= b THEN a ELSE b
Max(a, b) == IF a >= b THEN a ELSE b

\* a quotient num / den is kept as the pair <<num, den>>
RatioMax(p, q) == IF p[1] * q[2] >= q[1] * p[2] THEN p ELSE q

\* Math.min of two quotients
RatioMin(p, q) == IF p[1] * q[2] <= q[1] * p[2] THEN p ELSE q

\* Math.round(x * ratio): the nearest integer, a half rounds up
RoundTimes(x, ratio) == RoundDiv(x * ratio[1], ratio[2])

ComputeResizeAlways(origWidth, origHeight) ==
    LET ratio == RatioMin(<<MAX_DIMENSION, origWidth>>, <<MAX_DIMENSION, origHeight>>)
    IN [width |-> RoundTimes(origWidth, ratio),
        height |-> RoundTimes(origHeight, ratio)]

\* computeResizeDimensions(origWidth, origHeight)
ComputeResizeDimensions(origWidth, origHeight) ==
    IF origWidth <= MAX_DIMENSION /\ origHeight <= MAX_DIMENSION
    THEN [width |-> origWidth, height |-> origHeight]
    ELSE LET ratio == RatioMin(<<MAX_DIMENSION, origWidth>>,
                               <<MAX_DIMENSION, origHeight>>)
         IN [width |-> RoundTimes(origWidth, ratio),
             height |-> RoundTimes(origHeight, ratio)]

\* what processFile returns; pagesRendered is the pages option given to sharp
\* for the render whose buffer is returned
Returned(dims, fileType, pageCount, pagesRendered) ==
    [state |-> "returned", mimeType |-> "image/png",
     width |-> dims.width, height |-> dims.height,
     originalFileType |-> fileType, pageCount |-> pageCount,
     pagesRendered |-> pagesRendered]

Thrown(msg) == [state |-> "thrown", error |-> msg]

\* processImage(filePath)
ProcessImage(f) ==
    IF ~f.decodes THEN Thrown("Input buffer contains unsupported image format")
    ELSE Returned(ComputeResizeDimensions(OrElse(f.width, MAX_DIMENSION),
                                          OrElse(f.height, MAX_DIMENSION)),
                  "image", 1, 1)

\* renderSinglePage(pdfBuffer, totalPages)
RenderSinglePage(f, totalPages) ==
    Returned(ComputeResizeDimensions(OrElse(f.width, MAX_DIMENSION),
                                     OrElse(f.height, MAX_DIMENSION)),
             "pdf", totalPages, 1)

StitchDimensionsBoxed(rawWidth, rawHeight) ==
    ComputeResizeDimensions(rawWidth, rawHeight)

\* targetWidth, scale and targetHeight of renderAndStitchPages
StitchDimensions(rawWidth, rawHeight) ==
    LET targetWidth == Min(rawWidth, MAX_DIMENSION)
        scale == <<targetWidth, rawWidth>>
    IN [width |-> targetWidth, height |-> RoundTimes(rawHeight, scale)]

\* renderAndStitchPages(pdfBuffer, pagesToRender, totalPages)
RenderAndStitchPages(f, pagesToRender, totalPages) ==
    Returned(StitchDimensions(OrElse(f.width, MAX_DIMENSION),
                              OrElse(f.height, MAX_DIMENSION * pagesToRender)),
             "pdf", totalPages, pagesToRender)

PagesToRenderAll(totalPages) == totalPages

\* const pagesToRender = Math.min(totalPages, MAX_PDF_PAGES)
PagesToRender(totalPages) == Min(totalPages, MAX_PDF_PAGES)

\* processPdf(filePath): the probe of the page count, then one of the renders
ProcessPdf(f) ==
    IF ~f.decodes
    THEN Thrown("PDF rendering requires Sharp built with libvips poppler support.")
    ELSE LET totalPages == OrElse(f.pages, 1)
         IN IF PagesToRender(totalPages) = 1
            THEN RenderSinglePage(f, totalPages)
            ELSE RenderAndStitchPages(f, PagesToRender(totalPages), totalPages)

\* processFile(filePath) on an image
NormalizeImage ==
    /\ processed = NotProcessed
    /\ ~file.isPdf
    /\ processed' = ProcessImage(file)
    /\ UNCHANGED <<file, vendors, invoices, lineItems, runs, log>>

\* processFile(filePath) on a PDF
NormalizePdf ==
    /\ processed = NotProcessed
    /\ file.isPdf
    /\ processed' = ProcessPdf(file)
    /\ UNCHANGED <<file, vendors, invoices, lineItems, runs, log>>

\* processFile is called once on a file of either kind
NormalizeInit ==
    /\ vendors = <<>>
    /\ invoices = <<>>
    /\ lineItems = <<>>
    /\ runs = <<>>
    /\ log = <<>>
    /\ file \in Files
    /\ processed = NotProcessed

NormalizeNext ==
    \/ NormalizeImage
    \/ NormalizePdf

NormalizeSpec == NormalizeInit /\ [][NormalizeNext]_vars

\* ===================================================================== claims
Invoices == 1..Len(invoices)
Runs == 1..Len(runs)

\* run r takes a step from its position at (one of) pcs and ends as `how`
Completes(r, pcs, how) == runs[r].pc \in pcs /\ runs'[r].pc = how

\* C1: every invoice put into processing is in review or failed once its run
\* has completed: an invoice is in processing only while a run of
\* runExtraction is in flight for it.
C1_NotStuckInProcessing ==
    \A i \in Invoices :
        invoices[i].status = "processing" =>
            \E r \in Runs : InFlight(r) /\ runs[r].invoiceId = i

\* C2: runExtraction never rejects to its caller unless the invoice's status
\* has been set to failed: in the step in which a run rejects, its invoice is
\* failed.
C2_RejectsOnlyWhenFailed ==
    [][\A r \in Runs :
          (InFlight(r) /\ runs'[r].pc = "rejected")
              => invoices'[runs[r].invoiceId].status = "failed"]_vars

\* C3: a run that raised no error ends with the invoice failed when the
\* result's confidence is strictly below 0.15 and in review otherwise; 0.15
\* itself passes the gate.
C3_GateDecidesStatus ==
    [][\A r \in Runs :
          Completes(r, {"gate", "txWrite"}, "done")
              => invoices'[runs[r].invoiceId].status =
                     IF runs[r].result.confidence < CONFIDENCE_FLOOR
                     THEN "failed" ELSE "review"]_vars

\* C3 witness: one invoice in review at exactly the floor and another failed
\* by the gate just below it
C3_Witness ==
    \E i, j \in Invoices :
        /\ invoices[i].status = "review"
        /\ invoices[i].overallConfidence = CONFIDENCE_FLOOR
        /\ invoices[j].status = "failed"
        /\ invoices[j].rawExtraction.kind = "data"
        /\ invoices[j].overallConfidence = CONFIDENCE_FLOOR - 1

\* C4: a run whose result has a confidence below 0.15 never enters the
\* persistence transaction; its step at the gate leaves the vendors and the
\* line items as they were, and its update stores the confidence, the full
\* model payload and the note on the failed invoice.
C4_LowConfidencePath ==
    [][\A r \in Runs :
          (/\ runs[r].pc = "gate"
           /\ runs[r].result.confidence < CONFIDENCE_FLOOR
           /\ runs'[r] # runs[r])
              => /\ vendors' = vendors
                 /\ lineItems' = lineItems
                 /\ runs'[r].pc \in {"done", "catch"}
                 /\ runs'[r].pc = "done" =>
                       LET inv == invoices'[runs[r].invoiceId]
                       IN /\ inv.status = "failed"
                          /\ inv.overallConfidence = runs[r].result.confidence
                          /\ inv.rawExtraction = DataRaw(runs[r].result)
                          /\ inv.reviewNotes =
                                 "Document type unrecognized or illegible"]_vars

\* C4 witness: an invoice failed by the gate while a vendor row and line items
\* of another extraction exist
C4_Witness ==
    /\ Len(vendors) > 0
    /\ Len(lineItems) > 0
    /\ \E i \in Invoices :
          /\ invoices[i].status = "failed"
          /\ invoices[i].rawExtraction.kind = "data"
          /\ invoices[i].overallConfidence < CONFIDENCE_FLOOR
          /\ invoices[i].reviewNotes = "Document type unrecognized or illegible"

\* ------------------------------------------------- history of persisted runs
Commits == 1..Len(log)

\* the rows of line_items of invoice i, in insertion order
StoredItems(i) == SelectSeq(lineItems, LAMBDA row : row.invoiceId = i)

\* the commits of invoice i
CommitsOf(i) == {k \in Commits : log[k].invoiceId = i}

\* the most recent commit of invoice i
LastCommitOf(i) == CHOOSE k \in CommitsOf(i) : \A j \in CommitsOf(i) : j <= k

\* the commits attributed to vendor v
CommitsTo(v) == {k \in Commits : log[k].vendorId = v}

RECURSIVE SumTotals(_)
SumTotals(ks) ==
    IF ks = {} THEN 0
    ELSE LET k == CHOOSE x \in ks : TRUE
         IN log[k].result.totalAmount + SumTotals(ks \ {k})

\* number of positions of arr holding x
Count(arr, x) == Cardinality({k \in 1..Len(arr) : arr[k] = x})

Abs(x) == IF x < 0 THEN -x ELSE x

\* every commit is of another invoice
DistinctInvoices ==
    \A j, k \in Commits : j # k => log[j].invoiceId # log[k].invoiceId

\* every commit reported the same, non-empty, vendor name
SameNameReported ==
    /\ Len(log) >= 1
    /\ log[1].result.vendorName # <<>>
    /\ \A k \in Commits : log[k].result.vendorName = log[1].result.vendorName

\* C5: after any sequence of runs for an invoice, the line items stored for it
\* are exactly those of the most recent run that persisted.
C5_LineItemsReplaced ==
    \A i \in Invoices :
        CommitsOf(i) # {} =>
            StoredItems(i) = InsertedLineItems(i, log[LastCommitOf(i)].result)

\* C6: re-running runExtraction for the same invoice with the same model
\* result leaves the state of the first run: the commit of a run whose
\* invoice and result are those of the previous commit changes no vendor and
\* no line item and leaves the invoice in review with the same vendor.
C6_RerunIdempotent ==
    [][\A r \in Runs :
          (/\ Completes(r, {"txWrite"}, "done")
           /\ Len(log) > 0
           /\ log[Len(log)].invoiceId = runs[r].invoiceId
           /\ log[Len(log)].result = runs[r].result)
              => /\ vendors' = vendors
                 /\ lineItems' = lineItems
                 /\ invoices'[runs[r].invoiceId].status = "review"
                 /\ invoices'[runs[r].invoiceId].vendorId
                        = log[Len(log)].vendorId]_vars

\* C7: when runs for different invoices report the same vendor name, exactly
\* one vendor row with that normalized name exists after they commit.
C7_OneVendorRowPerName ==
    (DistinctInvoices /\ SameNameReported) =>
        Cardinality({v \in 1..Len(vendors) :
            vendors[v].normalizedName
                = NormalizedName(log[1].result.vendorName)}) = 1

\* C8: two runs for different invoices that match the same existing vendor
\* lose no update: after the vendor's creation and the two commits its
\* totalInvoices and totalSpend count all three, and the average is their
\* quotient (to the cent).
C8_NoLostUpdate ==
    (/\ Len(log) = 3
     /\ Len(vendors) = 1
     /\ \A k \in Commits : log[k].vendorId = 1
     /\ log[2].invoiceId # log[3].invoiceId)
        => /\ vendors[1].totalInvoices = 3
           /\ vendors[1].totalSpend = SumTotals(Commits)
           /\ 2 * Abs(3 * vendors[1].averageInvoiceAmount - vendors[1].totalSpend)
                  <= 3

C10_AverageExact ==
    \A v \in 1..Len(vendors) :
        /\ vendors[v].totalInvoices = Cardinality(CommitsTo(v))
        /\ vendors[v].totalSpend = SumTotals(CommitsTo(v))
        /\ vendors[v].averageInvoiceAmount * vendors[v].totalInvoices
               = vendors[v].totalSpend

\* C10 amended: the stored average is totalSpend / totalInvoices rounded to the
\* cent (the column keeps two decimals), and totalSpend and totalInvoices are
\* the sum and the number of the totals attributed to the vendor.
C10_AverageRounded ==
    \A v \in 1..Len(vendors) :
        /\ vendors[v].totalInvoices = Cardinality(CommitsTo(v))
        /\ vendors[v].totalInvoices >= 1
        /\ vendors[v].totalSpend = SumTotals(CommitsTo(v))
        /\ 2 * Abs(vendors[v].averageInvoiceAmount * vendors[v].totalInvoices
                       - vendors[v].totalSpend)
               <= vendors[v].totalInvoices

\* C10 witness: a vendor with several invoices whose average is not a whole
\* number of cents before rounding
C10_Witness ==
    \E v \in 1..Len(vendors) :
        /\ vendors[v].totalInvoices >= 2
        /\ vendors[v].averageInvoiceAmount * vendors[v].totalInvoices
               # vendors[v].totalSpend

\* ---------------------------------------------------- claims on processFile
\* processFile has returned for the file
HasReturned == processed # NotProcessed /\ processed.state = "returned"

\* the page count sharp reports for the file: meta.pages ?? 1
TotalPages == OrElse(file.pages, 1)

\* the output went through computeResizeDimensions: an image, or a PDF
\* rendered as a single page
Resized == HasReturned /\ processed.pagesRendered = 1

\* the output is the stitched composite of several pages
Stitched == HasReturned /\ processed.pagesRendered > 1

\* the dimensions given to computeResizeDimensions
OrigWidth == OrElse(file.width, MAX_DIMENSION)
OrigHeight == OrElse(file.height, MAX_DIMENSION)

\* the dimensions of the raw composite in renderAndStitchPages
RawWidth == OrElse(file.width, MAX_DIMENSION)
RawHeight == OrElse(file.height, MAX_DIMENSION * processed.pagesRendered)

\* out is num / den rounded to the nearest integer
IsRounded(out, num, den) == 2 * Abs(out * den - num) <= den

\* C17: for a PDF that sharp reports to have P pages, processPdf renders
\* min(P, 5) pages and returns pageCount = P: both are P when P <= 5, and when
\* P > 5 five pages are rendered, P is reported and the call does not fail.
C17_PdfPageCount ==
    (processed # NotProcessed /\ file.isPdf /\ file.decodes) =>
        /\ processed.state = "returned"
        /\ processed.pageCount = TotalPages
        /\ TotalPages <= 5 => processed.pagesRendered = TotalPages
        /\ TotalPages > 5 => processed.pagesRendered = 5

C17_Witness ==
    /\ HasReturned
    /\ file.isPdf
    /\ TotalPages > 5
    /\ processed.pageCount = TotalPages
    /\ processed.pagesRendered = 5

\* C18: when width and height are both at most 2048 computeResizeDimensions
\* returns them unchanged, and for every input the returned width and height
\* are at most the input width and height (an image or a single-page render
\* is never upscaled).
C18_NeverUpscaled ==
    Resized =>
        /\ (OrigWidth <= 2048 /\ OrigHeight <= 2048) =>
              (processed.width = OrigWidth /\ processed.height = OrigHeight)
        /\ processed.width <= OrigWidth
        /\ processed.height <= OrigHeight

C18_Witness ==
    /\ Resized
    /\ file.width = <<2048>>
    /\ file.height = <<2047>>
    /\ processed.width = 2048
    /\ processed.height = 2047

\* C19: when width or height is above 2048, the dimensions returned by
\* computeResizeDimensions are at most 2048 on both axes, and they are
\* round(w * r) and round(h * r) for r = min(2048 / w, 2048 / h), which is
\* 2048 divided by the longer side.
C19_FitsInBox ==
    (Resized /\ (OrigWidth > 2048 \/ OrigHeight > 2048)) =>
        /\ Max(processed.width, processed.height) <= 2048
        /\ IsRounded(processed.width, OrigWidth * 2048, Max(OrigWidth, OrigHeight))
        /\ IsRounded(processed.height, OrigHeight * 2048, Max(OrigWidth, OrigHeight))

C19_Witness ==
    /\ Resized
    /\ file.width = <<3000>>
    /\ file.height = <<4096>>
    /\ processed.width = 1500
    /\ processed.height = 2048

\* C20: the composite returned by renderAndStitchPages has width
\* min(rawWidth, 2048), which is at most 2048, and height
\* round(rawHeight * width / rawWidth); its height may exceed 2048.
C20_StitchedWidthBounded ==
    Stitched =>
        /\ processed.width = (IF RawWidth <= 2048 THEN RawWidth ELSE 2048)
        /\ processed.width <= 2048
        /\ IsRounded(processed.height, RawHeight * processed.width, RawWidth)

C20_Witness ==
    /\ Stitched
    /\ file.width = <<4096>>
    /\ file.height = <<5000>>
    /\ processed.width = 2048
    /\ processed.height = 2500

\* ------------------------------------------------------- claims on the review
\* the name reported by the extraction that created vendor row v
CreatedFrom(v) ==
    log[CHOOSE k \in CommitsTo(v) : \A j \in CommitsTo(v) : k <= j].result.vendorName

\* vendor row v was created from an extraction reporting name and has since
\* been renamed by a user
RenamedFrom(v, name) == CreatedFrom(v) = name /\ vendors[v].name # name

\* the vendor rows the lookup of runExtraction matches for name
MatchingVendors(name) == {w \in 1..Len(vendors) : VendorMatches(vendors[w], name)}

\* C11 as stated: after a vendor created from an extraction reporting X was
\* renamed by a user, a later extraction reporting X is attributed to that
\* vendor row and creates no vendor row.
C11_RenamedVendorRematched ==
    [][\A r \in Runs : Completes(r, {"txWrite"}, "done") =>
          \A v \in 1..Len(vendors) :
              RenamedFrom(v, runs[r].result.vendorName) =>
                  /\ Len(vendors') = Len(vendors)
                  /\ invoices'[runs[r].invoiceId].vendorId = v]_vars

\* C11 amended: after a vendor created from an extraction reporting X was
\* renamed by a user, a later extraction reporting X creates no vendor row
\* and is attributed to a vendor row matching X; that row is the renamed
\* vendor when it is the only row matching X.
C11_RenamedVendorMatched ==
    [][\A r \in Runs : Completes(r, {"txWrite"}, "done") =>
          \A v \in 1..Len(vendors) :
              RenamedFrom(v, runs[r].result.vendorName) =>
                  /\ Len(vendors') = Len(vendors)
                  /\ invoices'[runs[r].invoiceId].vendorId
                        \in MatchingVendors(runs[r].result.vendorName)
                  /\ MatchingVendors(runs[r].result.vendorName) = {v} =>
                        invoices'[runs[r].invoiceId].vendorId = v]_vars

\* the lookup of a run has matched, through the alias, the only vendor row
\* matching the name it reports, a row created from that name and renamed
C11_Witness ==
    \E r \in Runs, v \in 1..Len(vendors) :
        /\ runs[r].pc = "txWrite"
        /\ RenamedFrom(v, runs[r].result.vendorName)
        /\ MatchingVendors(runs[r].result.vendorName) = {v}
        /\ runs[r].v.found
        /\ runs[r].v.id = v

\* ------------------------------------------- claims on the failure of a run
\* C12: a run that ends with status failed because of an error (normalization,
\* model call, or a statement of the persistence transaction) leaves the
\* vendors and line_items tables as they were: the only step of a run that
\* writes them is the commit, which ends the run with the invoice in review,
\* and every other step, the rollback and the catch block included, writes
\* neither table.
C12_FailedRunWritesNothing ==
    [][\A r \in Runs :
          /\ Completes(r, {"txWrite"}, "done") =>
                invoices'[runs[r].invoiceId].status = "review"
          /\ (runs'[r] # runs[r] /\ ~Completes(r, {"txWrite"}, "done")) =>
                (vendors' = vendors /\ lineItems' = lineItems)]_vars

\* after one committed extraction, a later run has failed on a database error
\* and the two tables are what that commit left
C12_Witness ==
    \E i \in Invoices :
        /\ invoices[i].status = "failed"
        /\ invoices[i].rawExtraction = ErrorRaw(DbError)
        /\ Len(log) = 1
        /\ Len(vendors) = 1
        /\ vendors[1] = InsertedVendor(log[1].result)
        /\ lineItems = InsertedLineItems(log[1].invoiceId, log[1].result)
        /\ Len(lineItems) > 0

\* run r takes its last step
Finishes(r) == InFlight(r) /\ runs'[r].pc \in {"done", "rejected"}

\* C13: when a run of runExtraction completes, the invoice's rawExtraction
\* reflects that run: it is the error record of the exception when the run
\* ended through an exception, and the full output of the model when the run
\* ended in review or in the low-confidence failure.
C13_RawExtractionReflectsRun ==
    [][\A r \in Runs : Finishes(r) =>
          invoices'[runs[r].invoiceId].rawExtraction =
              IF runs[r].pc = "catch" THEN ErrorRaw(runs[r].err)
              ELSE DataRaw(runs[r].result)]_vars

\* ------------------------------------------ claims on the reply of the model
\* C14: extractInvoiceData returns a result only on normal completion: a
\* response with stop_reason refusal throws the refusal error and one with
\* stop_reason max_tokens throws the truncation error, a different one,
\* whatever text the response carries (it is not parsed); and the run then
\* ends with the invoice failed and the error of its condition in
\* rawExtraction.error.
C14_StopReasonFailsRun ==
    [][/\ \A response \in AnyResponses :
             /\ response.stop_reason = "refusal" =>
                   ExtractOutcome(response) = Throws(RefusalError)
             /\ response.stop_reason = "max_tokens" =>
                   ExtractOutcome(response) = Throws(TruncationError)
       /\ RefusalError # TruncationError
       /\ \A r \in Runs :
             (Finishes(r) /\ runs[r].pc = "catch"
                          /\ runs[r].err \in {RefusalError, TruncationError}) =>
                 /\ invoices'[runs[r].invoiceId].status = "failed"
                 /\ invoices'[runs[r].invoiceId].rawExtraction =
                        ErrorRaw(runs[r].err)]_vars

\* C15: every overall confidence persisted as overallConfidence lies in
\* [0, 1] (0..100 hundredths): a result whose confidence is outside is never
\* stored and never leads to review.
C15_ConfidenceInUnitInterval ==
    \A i \in Invoices :
        \/ invoices[i].overallConfidence = NewInvoice.overallConfidence
        \/ invoices[i].overallConfidence \in 0..100

\* the properties of a document of the ExtractionResult schema, as far as the
\* model keeps them
SchemaFields == {"vendorName", "totalAmount", "confidence", "lineItems"}

\* no required property is missing and no property is unknown
ConformsToSchema(value) == DOMAIN value = SchemaFields

\* C16: a reply that is not valid JSON or does not conform to the
\* ExtractionResult schema (a required field missing, an unknown field) is
\* rejected: it never produces status review.
C16_NonConformingNeverReview ==
    \A i \in Invoices :
        invoices[i].status = "review" =>
            ConformsToSchema(invoices[i].rawExtraction.data)

\* ------------------------------------------- claims on vendor reconciliation
\* vendor row V satisfies one of the three identity conditions for name
Identifies(V, name) ==
    \/ V.name = name
    \/ V.normalizedName = ToLowerCase(Trim(name))
    \/ \E k \in 1..Len(V.aliases) : V.aliases[k] = name

\* the existing vendor rows that satisfy one of the three conditions
IdentifiedBy(name) == {v \in 1..Len(vendors) : Identifies(vendors[v], name)}

\* the line_items table ends with the items of res, stored for invoice i in
\* the order of the array
ItemsPersisted(table, i, res) ==
    /\ Len(table) >= Len(res.lineItems)
    /\ \A k \in 1..Len(res.lineItems) :
          LET row == table[Len(table) - Len(res.lineItems) + k]
          IN row.invoiceId = i /\ row.description = res.lineItems[k].description

\* the commit of a run that reports a name no vendor row is identified by:
\* one vendor row is added, with count 1, spend and average the invoice's
\* total and the reported name as its only alias, and the invoice is in
\* review, linked to it, with its line items stored
CreatesVendor(r) ==
    LET res == runs[r].result
        i == runs[r].invoiceId
    IN /\ Len(vendors') = Len(vendors) + 1
       /\ \A v \in 1..Len(vendors) : vendors'[v] = vendors[v]
       /\ vendors'[Len(vendors')].name = res.vendorName
       /\ vendors'[Len(vendors')].totalInvoices = 1
       /\ vendors'[Len(vendors')].totalSpend = res.totalAmount
       /\ vendors'[Len(vendors')].averageInvoiceAmount = res.totalAmount
       /\ vendors'[Len(vendors')].aliases = <<res.vendorName>>
       /\ invoices'[i].status = "review"
       /\ invoices'[i].vendorId = Len(vendors')
       /\ ItemsPersisted(lineItems', i, res)

\* C21 as stated: a successful extraction whose reported vendor name matches
\* no existing vendor creates exactly one vendor row with totalInvoices = 1,
\* totalSpend and averageInvoiceAmount the invoice's total and the reported
\* name as only alias; the invoice ends in review linked to that vendor with
\* its line items persisted.
C21_NoMatchCreatesVendor ==
    [][\A r \in Runs :
          (Completes(r, {"txWrite"}, "done")
              /\ IdentifiedBy(runs[r].result.vendorName) = {}) =>
                  CreatesVendor(r)]_vars

\* C21 amended: the same for a reported vendor name that is not empty; with
\* an empty name no vendor row is created and the invoice is linked to none.
C21_NamedNoMatchCreatesVendor ==
    [][\A r \in Runs :
          (Completes(r, {"txWrite"}, "done")
              /\ IdentifiedBy(runs[r].result.vendorName) = {}) =>
                  IF runs[r].result.vendorName # <<>>
                  THEN CreatesVendor(r)
                  ELSE /\ vendors' = vendors
                       /\ invoices'[runs[r].invoiceId].vendorId = 0
                       /\ invoices'[runs[r].invoiceId].status = "review"]_vars

\* a second vendor row was created by the last commit, next to a first one
\* that did not match, and the invoice with its two line items is linked to it
C21_Witness ==
    /\ Len(vendors) = 2
    /\ Len(log) = 2
    /\ log[2].vendorId = 2
    /\ ~Identifies(vendors[1], log[2].result.vendorName)
    /\ vendors[2].totalInvoices = 1
    /\ vendors[2].aliases = <<log[2].result.vendorName>>
    /\ invoices[log[2].invoiceId].status = "review"
    /\ invoices[log[2].invoiceId].vendorId = 2
    /\ Len(log[2].result.lineItems) = 2
    /\ ItemsPersisted(lineItems, log[2].invoiceId, log[2].result)

RenamesInvoice(id) ==
    /\ runs' = runs
    /\ invoices'[id].vendorName # invoices[id].vendorName
    /\ invoices[id].vendorId # 0

\* the vendor of invoice id has the old stored name of the invoice among its
\* aliases, appended once or left as it was, and the new name and its
\* trim+lowercase form as name and normalizedName
Demoted(id) ==
    LET old == invoices[id].vendorName
        V == vendors[invoices[id].vendorId]
        W == vendors'[invoices[id].vendorId]
    IN /\ \E k \in 1..Len(W.aliases) : W.aliases[k] = old
       /\ (\E k \in 1..Len(V.aliases) : V.aliases[k] = old) => W.aliases = V.aliases
       /\ (\A k \in 1..Len(V.aliases) : V.aliases[k] # old) =>
              W.aliases = Append(V.aliases, old)
       /\ W.name = invoices'[id].vendorName
       /\ W.normalizedName = ToLowerCase(Trim(invoices'[id].vendorName))

\* a vendor row is changed by a PATCH only when the name sent differs from
\* the stored name of an invoice attributed to it
RenamedOnlyWhenDifferent ==
    \A v \in 1..Len(vendors) :
        (runs' = runs /\ vendors'[v] # vendors[v]) =>
            \E id \in Invoices :
                /\ invoices[id].vendorId = v
                /\ invoices[id].vendorName # vendors'[v].name

\* C23 as stated: after PATCH /:id with a vendorName that differs from the
\* stored name of the invoice, the vendor's aliases contain the old name
\* (appended once, unchanged if already present) and its name and
\* normalizedName are the new name and its trim+lowercase form; when the new
\* name equals the stored name the vendor row is unchanged.
C23_RenameDemotesOldName ==
    [][/\ \A id \in Invoices : RenamesInvoice(id) => Demoted(id)
       /\ RenamedOnlyWhenDifferent]_vars

\* C23 amended: the same when the stored name of the invoice is not empty;
\* when it is empty the vendor row is unchanged.
C23_RenameDemotesNonEmptyOldName ==
    [][/\ \A id \in Invoices : RenamesInvoice(id) =>
             IF invoices[id].vendorName # <<>> THEN Demoted(id)
             ELSE vendors' = vendors
       /\ RenamedOnlyWhenDifferent]_vars

\* a vendor created from "Ab" and counted once was renamed twice through its
\* invoice: the name "Cd" it held in between was appended to its aliases
C23_Witness ==
    \E v \in 1..Len(vendors) :
        /\ vendors[v].totalInvoices = 1
        /\ vendors[v].aliases = << <<"A", "b">>, <<"C", "d">> >>
        /\ vendors[v].name = <<"E", "f">>
        /\ vendors[v].normalizedName = <<"e", "f">>

\* C29: every name a vendor row has held in its name field stays matched to
\* that row: after every step, the name the row held before the step, when an
\* extraction can report it (it is not empty), is the row's name or one of
\* its aliases, and no alias is dropped.
C29_HeldNamesStayMatched ==
    [][\A v \in 1..Len(vendors) :
          /\ vendors[v].name # <<>> =>
                \/ vendors'[v].name = vendors[v].name
                \/ \E k \in 1..Len(vendors'[v].aliases) :
                      vendors'[v].aliases[k] = vendors[v].name
          /\ \A j \in 1..Len(vendors[v].aliases) :
                \E k \in 1..Len(vendors'[v].aliases) :
                    vendors'[v].aliases[k] = vendors[v].aliases[j]]_vars

\* C30: after any sequence of non-concurrent extractions and renames, no two
\* vendor rows have the same normalizedName.
C30_NormalizedNameUnique ==
    \A v, w \in 1..Len(vendors) :
        vendors[v].normalizedName = vendors[w].normalizedName => v = w

\* ------------------------------------------------ claims on the stage order
\* the positions a run may take next from position pc: the stages in the
\* order normalize, model call, confidence gate, persist, each left for the
\* next stage or for the failure path, and none entered again
StagesAfter(pc) ==
    CASE pc = "processFile" -> {"extract", "catch"}
      [] pc = "extract" -> {"gate", "catch"}
      [] pc = "gate" -> {"txWrite", "done", "catch"}
      [] pc = "txWrite" -> {"done", "catch"}
      [] pc = "catch" -> {"done", "rejected"}
      [] OTHER -> {}

\* the step writes a vendor, a line item, or a field of an invoice that comes
\* from the document
WritesExtractedData ==
    \/ vendors' # vendors
    \/ lineItems' # lineItems
    \/ \E i \in Invoices :
          \/ invoices'[i].vendorId # invoices[i].vendorId
          \/ invoices'[i].vendorName # invoices[i].vendorName
          \/ invoices'[i].totalAmount # invoices[i].totalAmount
          \/ invoices'[i].overallConfidence # invoices[i].overallConfidence

\* C24: within one run the stages execute in the order normalize, model
\* call, confidence gate, persist, with no retry: a run moves only forward
\* through the stages or to the failure path, the model call is left once and
\* entered only from a successful normalization, a step that writes a vendor,
\* a line item or an extracted invoice field belongs to a run holding the
\* result of the model call, and a run on the failure path only finishes.
C24_StagesInOrderOnce ==
    [][\A r \in Runs :
          runs'[r] # runs[r] =>
              /\ runs'[r].pc \in StagesAfter(runs[r].pc)
              /\ runs'[r].pc = "extract" => runs[r].pc = "processFile"
              /\ runs'[r].result # NoResult => runs[r].pc \in {"extract", "gate"}
              /\ WritesExtractedData =>
                    /\ runs[r].pc \in {"gate", "txWrite"}
                    /\ runs[r].result # NoResult]_vars

\* a run of an invoice went through all four stages and committed, and another
\* run of that invoice failed in the model call and waits in the catch block
\* without a result
C24_Witness ==
    \E r, q \in Runs :
        /\ runs[r].pc = "done"
        /\ \E k \in Commits : log[k].invoiceId = runs[q].invoiceId
        /\ runs[q].pc = "catch"
        /\ runs[q].err \in ExtractErrors
        /\ runs[q].result = NoResult

\* ------------------------------------------------- claims on overlapping work
\* C26: at most one run of runExtraction is in flight for any invoice at any
\* time.
C26_OneRunInFlightPerInvoice ==
    \A r, q \in Runs :
        (InFlight(r) /\ InFlight(q) /\ runs[r].invoiceId = runs[q].invoiceId)
            => r = q

\* C27: a decision is never overwritten by the pipeline: a step of a run of
\* runExtraction leaves the status of an invoice that is approved or rejected
\* as it is.
C27_DecisionNotOverwritten ==
    [][\A r \in Runs :
          (/\ Len(runs') = Len(runs)
           /\ runs'[r] # runs[r]
           /\ invoices[runs[r].invoiceId].status \in {"approved", "rejected"})
              => invoices'[runs[r].invoiceId].status =
                     invoices[runs[r].invoiceId].status]_vars

\* ---------------------------------------------- claims on the vendor counters
\* the invoices whose vendorId refers to vendor v
AttributedTo(v) == {i \in Invoices : invoices[i].vendorId = v}

\* C28: in every state reached by non-overlapping uploads, runs and manual
\* re-extractions, each vendor's totalInvoices is the number of invoices whose
\* vendorId refers to that vendor.
C28_TotalInvoicesCountsAttributed ==
    \A v \in 1..Len(vendors) :
        vendors[v].totalInvoices = Cardinality(AttributedTo(v))

\* ------------------------------------------------- claims on line-item order
\* the descriptions of a sequence of line items, in its order
Descriptions(items) == [k \in 1..Len(items) |-> items[k].description]

\* C25: the line items GET /:id returns for an invoice are in the order of the
\* lineItems array of the run that persisted them, whatever line numbers the
\* items report (checked on invoices persisted by one run).
C25_ListingKeepsModelOrder ==
    \A i \in Invoices :
        Cardinality(CommitsOf(i)) = 1 =>
            \A items \in GetLineItems(i) :
                Descriptions(items) =
                    Descriptions(log[LastCommitOf(i)].result.lineItems)

====
